---- MODULE Spec2Model ----
(***************************************************************************)
(* benimator, src/animation/parse.rs: decoding of a sprite-sheet animation *)
(* descriptor written in YAML or RON into AnimationDto, and its conversion *)
(* (TryFrom<AnimationDto>) into a SpriteSheetAnimation.                    *)
(*                                                                         *)
(* Two specifications:                                                     *)
(*   SpecCanon  the conversion AnimationDto -> SpriteSheetAnimation,       *)
(*              applied to every AnimationDto of a bounded set;            *)
(*   Spec       the four public entry points (from_yaml_str,               *)
(*              from_yaml_bytes, from_ron_str, from_ron_bytes) applied to  *)
(*              a YAML document and a RON document holding the same       *)
(*              authored descriptor.                                       *)
(***************************************************************************)
EXTENDS Integers, Sequences, FiniteSets, TLC

VARIABLES
    dto,        \* SpecCanon: the AnimationDto handed to try_from
    converted,  \* SpecCanon: None, or Some(the Result try_from returned)
    yaml,       \* Spec: the bytes of the YAML document
    ron,        \* Spec: the bytes of the RON document
    results     \* Spec: per entry point, None or Some(the Result it returned)

vars == <<dto, converted, yaml, ron, results>>

----------------------------------------------------------------------------
(* Bounds of the model *)

MaxFrames == 2      \* longest frame list
MaxDur == 2         \* durations are 0, DurStep, .., MaxDur * DurStep ms
DurStep == 700      \* so that a duration above one second occurs
MaxK == 3           \* RepeatFrom(0..MaxK); exceeds MaxFrames

(* usize is as wide as a pointer of the target; the 16-bit targets are the *)
(* ones whose out-of-range literals the model's integers can hold.         *)
UsizeBits == 16
UsizeMax == 2^UsizeBits - 1

Indices == {0, 1}
Durations == {d * DurStep : d \in 0..MaxDur}
Ks == 0..MaxK

----------------------------------------------------------------------------
(* Option<T> and Result<T, E> *)

None == << >>
Some(x) == <<x>>
Ok(v) == [ok |-> TRUE, value |-> v]
Err(e) == [ok |-> FALSE, error |-> e]

\* Option::or
Option_or(a, b) == IF a # None THEN a ELSE b

\* Option::filter(|d| *d > 0)
Option_filter_positive(o) == IF o # None /\ o[1] > 0 THEN o ELSE None

\* Duration::from_millis: whole seconds and the remainder in nanoseconds
Duration_from_millis(ms) ==
    [secs |-> ms \div 1000, nanos |-> (ms % 1000) * 1000000]

\* Frame::new
Frame_new(index, duration) == [index |-> index, duration |-> duration]

----------------------------------------------------------------------------
(* enum ModeDto, struct FrameDto, struct AnimationDto *)

ModeDto_Repeat == [tag |-> "Repeat", n |-> 0]
ModeDto_RepeatFrom(f) == [tag |-> "RepeatFrom", n |-> f]
ModeDto_Once == [tag |-> "Once", n |-> 0]
ModeDto_PingPong == [tag |-> "PingPong", n |-> 0]
ModeDto_default == ModeDto_Repeat

FrameDto(index, duration) == [index |-> index, duration |-> duration]

AnimationDto(mode, frame_duration, frames) ==
    [mode |-> mode, frame_duration |-> frame_duration, frames |-> frames]

(* enum Mode of the canonical animation (super::Mode) *)
Mode_RepeatFrom(f) == [tag |-> "RepeatFrom", n |-> f]
Mode_Once == [tag |-> "Once", n |-> 0]
Mode_PingPong == [tag |-> "PingPong", n |-> 0]

(* enum InvalidAnimation and its Display *)
ZeroDuration == "ZeroDuration"
InvalidAnimation_fmt(e) ==
    IF e = ZeroDuration THEN "invalid duration, must be > 0" ELSE ""

----------------------------------------------------------------------------
(* impl TryFrom<AnimationDto> for SpriteSheetAnimation *)

\* The >= 0 filter keeps a zero duration.
EffectiveDuration_keeps_zero(duration, frame_duration) ==
    Option_or(duration, frame_duration)

\* The shared duration takes precedence over the frame's own.
EffectiveDuration_shared_first(duration, frame_duration) ==
    Option_filter_positive(Option_or(frame_duration, duration))

\* The filter is applied to the frame's own duration before the fallback.
EffectiveDuration_filter_first(duration, frame_duration) ==
    Option_or(Option_filter_positive(duration),
              Option_filter_positive(frame_duration))

\* duration.or(animation.frame_duration).filter(|d| *d > 0)
EffectiveDuration(duration, frame_duration) ==
    Option_filter_positive(Option_or(duration, frame_duration))

\* the closure mapped over the frames
ConvertFrame(frame, frame_duration) ==
    LET d == EffectiveDuration(frame.duration, frame_duration)
    IN  IF d # None
        THEN Ok(Frame_new(frame.index, Duration_from_millis(d[1])))
        ELSE Err(ZeroDuration)

\* The frames are collected last to first.
RECURSIVE CollectFrames_reversed(_, _)
CollectFrames_reversed(frames, frame_duration) ==
    IF frames = << >> THEN Ok(<< >>)
    ELSE LET head == ConvertFrame(Head(frames), frame_duration)
             rest == CollectFrames_reversed(Tail(frames), frame_duration)
         IN  IF ~head.ok THEN head
             ELSE IF ~rest.ok THEN rest
             ELSE Ok(rest.value \o <<head.value>>)

\* .into_iter().map(..).collect::<Result<_, _>>(): the frames in order, or
\* the first error
RECURSIVE CollectFrames(_, _)
CollectFrames(frames, frame_duration) ==
    IF frames = << >> THEN Ok(<< >>)
    ELSE LET head == ConvertFrame(Head(frames), frame_duration)
         IN  IF ~head.ok THEN head
             ELSE LET rest == CollectFrames(Tail(frames), frame_duration)
                  IN  IF ~rest.ok THEN rest
                      ELSE Ok(<<head.value>> \o rest.value)

\* Repeat restarts from the second frame.
NormalizeMode_repeat_from_one(mode) ==
    CASE mode.tag = "Repeat" -> Mode_RepeatFrom(1)
      [] mode.tag = "RepeatFrom" -> Mode_RepeatFrom(mode.n)
      [] mode.tag = "Once" -> Mode_Once
      [] mode.tag = "PingPong" -> Mode_PingPong

\* match animation.mode { .. }
NormalizeMode(mode) ==
    CASE mode.tag = "Repeat" -> Mode_RepeatFrom(0)
      [] mode.tag = "RepeatFrom" -> Mode_RepeatFrom(mode.n)
      [] mode.tag = "Once" -> Mode_Once
      [] mode.tag = "PingPong" -> Mode_PingPong

try_from(animation) ==
    LET frames == CollectFrames(animation.frames, animation.frame_duration)
    IN  IF ~frames.ok THEN Err(frames.error)
        ELSE Ok([frames |-> frames.value,
                 mode |-> NormalizeMode(animation.mode)])

----------------------------------------------------------------------------
(* The AnimationDto values of SpecCanon *)

RECURSIVE SeqsUpTo(_, _)
SeqsUpTo(S, n) ==
    IF n = 0 THEN {<< >>}
    ELSE LET shorter == SeqsUpTo(S, n - 1)
         IN  shorter \cup {Append(s, x) : s \in shorter, x \in S}

OptDurations == {None} \cup {Some(d) : d \in Durations}

ModeDtos ==
    {ModeDto_Repeat, ModeDto_Once, ModeDto_PingPong}
        \cup {ModeDto_RepeatFrom(k) : k \in Ks}

FrameDtos == {FrameDto(i, d) : i \in Indices, d \in OptDurations}

AnimationDtos ==
    {AnimationDto(m, fd, fs) :
        m \in ModeDtos, fd \in OptDurations, fs \in SeqsUpTo(FrameDtos, MaxFrames)}

----------------------------------------------------------------------------
(* Documents.  A document is held as the tree its notation's parser reads  *)
(* from the bytes: what is written for mode, for frame_duration and for    *)
(* each entry of frames.  An optional number is written as                 *)
(*   absent  the key is not written                                        *)
(*   null    YAML ~                       none   RON None                  *)
(*   int     a bare number                some   RON Some(n)               *)

Tok(t, v) == [t |-> t, v |-> v]
Absent == Tok("absent", 0)

\* a frame written as a bare number
IntEntry(v) == [t |-> "int", index |-> v, duration |-> Absent, extra |-> {}]
\* a frame written as a record: index, duration and the other keys it holds
MapEntry(index, duration, extra) ==
    [t |-> "map", index |-> index, duration |-> duration, extra |-> extra]
\* a frame written as a string
StrEntry == [t |-> "str", index |-> 0, duration |-> Absent, extra |-> {}]

\* mode: not written, a unit variant, or RepeatFrom with its number
ModeAbsent == [t |-> "absent", name |-> "", n |-> 0]
ModeUnit(name) == [t |-> "unit", name |-> name, n |-> 0]
ModeRepeatFrom(k) == [t |-> "newtype", name |-> "RepeatFrom", n |-> k]

Tree(mode, frame_duration, frames) ==
    [mode |-> mode, frame_duration |-> frame_duration, frames |-> frames]

\* syntax: "ok", or "malformed" for bytes that are no document of the notation
Bytes(notation, valid_utf8, syntax, tree) ==
    [notation |-> notation, valid_utf8 |-> valid_utf8, syntax |-> syntax,
     tree |-> tree]

\* str::as_bytes: a str is its UTF-8 bytes
as_bytes(text) == [text EXCEPT !.valid_utf8 = TRUE]

----------------------------------------------------------------------------
(* Errors of the format crates (serde::de::Error) *)

\* Visitor::expecting
expecting == "either a frame index, or a frame-index with a"

SyntaxError == [kind |-> "syntax", unexpected |-> 0, text |-> ""]
invalid_value(v, exp) == [kind |-> "invalid_value", unexpected |-> v, text |-> exp]
invalid_type(exp) == [kind |-> "invalid_type", unexpected |-> 0, text |-> exp]
unknown_field(field) == [kind |-> "unknown_field", unexpected |-> 0, text |-> field]
unknown_variant(name) == [kind |-> "unknown_variant", unexpected |-> 0, text |-> name]
\* de::Error::custom(msg)
custom(msg) == [kind |-> "custom", unexpected |-> 0, text |-> msg]

----------------------------------------------------------------------------
(* Deserialize.  fmt is the deserializer: its notation and, for RON, the   *)
(* extensions it was built with.                                           *)

YamlDeserializer == [notation |-> "yaml", extensions |-> {}]
RonDeserializer(extensions) == [notation |-> "ron", extensions |-> extensions]

\* usize::deserialize of a non-negative integer
Deserialize_usize(v) ==
    IF v <= UsizeMax THEN Ok(v) ELSE Err(invalid_value(v, "usize"))

\* Option<u64>::deserialize of a value that is written
Deserialize_Option_u64(tok, fmt) ==
    IF fmt.notation = "yaml"
    THEN CASE tok.t = "null" -> Ok(None)
           [] tok.t = "int" -> Ok(Some(tok.v))
           [] OTHER -> Err(invalid_type("option"))
    ELSE CASE tok.t = "none" -> Ok(None)
           [] tok.t = "some" -> Ok(Some(tok.v))
           [] tok.t = "int" ->
                IF "IMPLICIT_SOME" \in fmt.extensions
                THEN Ok(Some(tok.v))
                ELSE Err(invalid_type("option"))
           [] OTHER -> Err(invalid_type("option"))

\* a field of type Option<u64>: None when the key is not written
Deserialize_Option_field(tok, fmt) ==
    IF tok.t = "absent" THEN Ok(None) ELSE Deserialize_Option_u64(tok, fmt)

\* The index is cast (v as usize) instead of converted.
visit_u64_wrapping(v) == Ok(FrameDto(v % (UsizeMax + 1), None))

\* Visitor::visit_u64
visit_u64(v) ==
    IF v <= UsizeMax
    THEN Ok(FrameDto(v, None))
    ELSE Err(invalid_value(v, expecting))

\* FrameDtoMap without deny_unknown_fields: the other keys are skipped.
Deserialize_FrameDtoMap_permissive(entry, fmt) ==
    LET index == Deserialize_usize(entry.index)
        duration == Deserialize_Option_field(entry.duration, fmt)
    IN  IF ~index.ok THEN index
        ELSE IF ~duration.ok THEN duration
        ELSE Ok(FrameDto(index.value, duration.value))

\* #[derive(Deserialize)] #[serde(deny_unknown_fields)] struct FrameDtoMap,
\* the keys read in the order index, duration, others
Deserialize_FrameDtoMap(entry, fmt) ==
    LET index == Deserialize_usize(entry.index)
        duration == Deserialize_Option_field(entry.duration, fmt)
    IN  IF ~index.ok THEN index
        ELSE IF ~duration.ok THEN duration
        ELSE IF entry.extra # {}
             THEN Err(unknown_field(CHOOSE k \in entry.extra : TRUE))
        ELSE Ok(FrameDto(index.value, duration.value))

\* Visitor::visit_map
visit_map(entry, fmt) ==
    LET m == Deserialize_FrameDtoMap(entry, fmt)
    IN  IF ~m.ok THEN m ELSE Ok(FrameDto(m.value.index, m.value.duration))

\* FrameDto::deserialize: deserialize_any(Visitor); a shape the Visitor has
\* no method for is an invalid type
Deserialize_FrameDto(entry, fmt) ==
    CASE entry.t = "int" -> visit_u64(entry.index)
      [] entry.t = "map" -> visit_map(entry, fmt)
      [] OTHER -> Err(invalid_type(expecting))

\* Vec<FrameDto>::deserialize: the entries in order, or the first error
RECURSIVE Deserialize_Vec_FrameDto(_, _)
Deserialize_Vec_FrameDto(entries, fmt) ==
    IF entries = << >> THEN Ok(<< >>)
    ELSE LET head == Deserialize_FrameDto(Head(entries), fmt)
         IN  IF ~head.ok THEN head
             ELSE LET rest == Deserialize_Vec_FrameDto(Tail(entries), fmt)
                  IN  IF ~rest.ok THEN rest
                      ELSE Ok(<<head.value>> \o rest.value)

\* #[derive(Deserialize)] enum ModeDto, #[serde(default)] on the field
Deserialize_ModeDto(mode) ==
    CASE mode.t = "absent" -> Ok(ModeDto_default)
      [] mode.t = "unit" /\ mode.name = "Repeat" -> Ok(ModeDto_Repeat)
      [] mode.t = "unit" /\ mode.name = "Once" -> Ok(ModeDto_Once)
      [] mode.t = "unit" /\ mode.name = "PingPong" -> Ok(ModeDto_PingPong)
      [] mode.t = "newtype" /\ mode.name = "RepeatFrom" ->
            LET n == Deserialize_usize(mode.n)
            IN  IF ~n.ok THEN n ELSE Ok(ModeDto_RepeatFrom(n.value))
      [] OTHER -> Err(unknown_variant(mode.name))

\* #[derive(Deserialize)] struct AnimationDto, the keys read in the order
\* mode, frame_duration, frames
Deserialize_AnimationDto(tree, fmt) ==
    LET mode == Deserialize_ModeDto(tree.mode)
        frame_duration == Deserialize_Option_field(tree.frame_duration, fmt)
        frames == Deserialize_Vec_FrameDto(tree.frames, fmt)
    IN  IF ~mode.ok THEN mode
        ELSE IF ~frame_duration.ok THEN frame_duration
        ELSE IF ~frames.ok THEN frames
        ELSE Ok(AnimationDto(mode.value, frame_duration.value, frames.value))

\* SpriteSheetAnimation::deserialize: the AnimationDto, then try_from, whose
\* error becomes the deserializer's custom error with the error's Display
Deserialize_SpriteSheetAnimation(tree, fmt) ==
    LET animation == Deserialize_AnimationDto(tree, fmt)
    IN  IF ~animation.ok THEN animation
        ELSE LET converted_ == try_from(animation.value)
             IN  IF converted_.ok THEN converted_
                 ELSE Err(custom(InvalidAnimation_fmt(converted_.error)))

\* the parser of a notation: bytes that are not UTF-8, or no document of the
\* notation, are a syntax error
from_slice(bytes, fmt) ==
    IF ~bytes.valid_utf8 \/ bytes.syntax # "ok" \/ bytes.notation # fmt.notation
    THEN Err(SyntaxError)
    ELSE Deserialize_SpriteSheetAnimation(bytes.tree, fmt)

----------------------------------------------------------------------------
(* struct AnimationParseError and the public entry points *)

AnimationParseError_new(err) == [AnimationParseError |-> err]

map_err(result) ==
    IF result.ok THEN result ELSE Err(AnimationParseError_new(result.error))

from_yaml_bytes(bytes) == map_err(from_slice(bytes, YamlDeserializer))

from_yaml_str(text) == from_yaml_bytes(as_bytes(text))

\* The default options: no IMPLICIT_SOME.
from_ron_bytes_default_options(bytes) ==
    map_err(from_slice(bytes, RonDeserializer({})))

from_ron_bytes(bytes) ==
    map_err(from_slice(bytes, RonDeserializer({"IMPLICIT_SOME"})))

\* The text is handed to the YAML entry point.
from_ron_str_as_yaml(text) == from_yaml_bytes(as_bytes(text))

from_ron_str(text) == from_ron_bytes(as_bytes(text))

----------------------------------------------------------------------------
(* The documents of Spec.  A descriptor is authored once, as the tree of  *)
(* its YAML document; the RON document holds the same descriptor, its      *)
(* optional numbers written bare (duration: 100) or wrapped                *)
(* (duration: Some(100)).                                                  *)

RonTok(tok, wrapped) ==
    CASE tok.t = "null" -> Tok("none", 0)
      [] tok.t = "int" -> IF wrapped THEN Tok("some", tok.v) ELSE tok
      [] OTHER -> tok

RonTree(tree, wrapped) ==
    [mode |-> tree.mode,
     frame_duration |-> RonTok(tree.frame_duration, wrapped),
     frames |-> [i \in 1..Len(tree.frames) |->
                    [tree.frames[i] EXCEPT
                        !.duration = RonTok(tree.frames[i].duration, wrapped)]]]

Input(tree, wrapped) ==
    [yaml |-> Bytes("yaml", TRUE, "ok", tree),
     ron |-> Bytes("ron", TRUE, "ok", RonTree(tree, wrapped))]

EmptyTree == Tree(ModeAbsent, Absent, << >>)

\* bytes that are no document, and bytes that are not UTF-8
BrokenInputs ==
    {[yaml |-> Bytes("yaml", TRUE, "malformed", EmptyTree),
      ron |-> Bytes("ron", TRUE, "malformed", EmptyTree)],
     [yaml |-> Bytes("yaml", FALSE, "ok", EmptyTree),
      ron |-> Bytes("ron", FALSE, "ok", EmptyTree)]}

WrittenDurations == {Absent} \cup {Tok("int", d) : d \in Durations}

\* the entries of the long frame lists
WrittenEntries ==
    {IntEntry(0), IntEntry(UsizeMax + 1), StrEntry,
     MapEntry(0, Tok("int", DurStep), {"weight"})}
        \cup {MapEntry(i, d, {}) : i \in Indices, d \in WrittenDurations}

\* the entries of the short ones: also the largest index that fits, a null
\* duration, an unknown key beside an index alone
MoreEntries ==
    WrittenEntries
        \cup {IntEntry(1), IntEntry(UsizeMax), MapEntry(0, Absent, {"weight"})}
        \cup {MapEntry(i, Tok("null", 0), {}) : i \in Indices}

WrittenModes ==
    {ModeAbsent, ModeUnit("Repeat"), ModeUnit("Once"), ModeUnit("PingPong"),
     ModeUnit("Bounce")}
        \cup {ModeRepeatFrom(k) : k \in Ks}

\* every frame list under every shared duration, the mode left out
FrameTrees ==
    {Tree(ModeAbsent, fd, fs) :
        fd \in WrittenDurations, fs \in SeqsUpTo(WrittenEntries, MaxFrames)}

\* the short frame lists, also under a null shared duration
ShortTrees ==
    {Tree(ModeAbsent, fd, fs) :
        fd \in WrittenDurations \cup {Tok("null", 0)},
        fs \in SeqsUpTo(MoreEntries, 1)}

\* every mode over a few frame lists
ModeTrees ==
    {Tree(m, fd, fs) :
        m \in WrittenModes,
        fd \in {Absent, Tok("int", DurStep)},
        fs \in {<< >>, <<IntEntry(0)>>, <<MapEntry(1, Tok("int", DurStep), {})>>,
                <<MapEntry(0, Tok("int", 0), {}), IntEntry(1)>>}}

\* the documents of the tests and of the doc comments
Timed(i, ms) == MapEntry(i, Tok("int", ms), {})
Untimed(i) == MapEntry(i, Absent, {})
ExampleTrees ==
    {Tree(ModeUnit("PingPong"), Absent, <<Timed(0, 100), Timed(1, 100), Timed(2, 120)>>),
     Tree(ModeAbsent, Absent, <<Timed(0, 100)>>),
     Tree(ModeUnit("Repeat"), Absent, <<Timed(0, 100)>>),
     Tree(ModeUnit("Once"), Absent, <<Timed(0, 100)>>),
     Tree(ModeRepeatFrom(1), Absent, <<Timed(0, 100), Timed(1, 100)>>),
     Tree(ModeAbsent, Absent, <<Timed(0, 0)>>),
     Tree(ModeAbsent, Tok("int", 100), <<Untimed(0), Untimed(1), Timed(2, 200)>>),
     Tree(ModeAbsent, Tok("int", 100), <<IntEntry(0), IntEntry(1), IntEntry(2)>>),
     Tree(ModeRepeatFrom(1), Absent, <<Timed(0, 100), Timed(1, 100), Timed(2, 120)>>)}

\* The long frame lists are written bare in RON, the others both ways.
Inputs ==
    {Input(t, FALSE) : t \in FrameTrees}
        \cup {Input(t, w) : t \in ShortTrees \cup ModeTrees \cup ExampleTrees,
                            w \in BOOLEAN}
        \cup BrokenInputs

EntryPoints == {"from_yaml_str", "from_yaml_bytes", "from_ron_str", "from_ron_bytes"}

\* String::from_utf8 of bytes that are UTF-8: the text the bytes hold
Text(bytes) == bytes

----------------------------------------------------------------------------
(* Spec: a YAML document and a RON document, and the entry points called   *)
(* on them in any order.                                                   *)

Init ==
    /\ \E inp \in Inputs : yaml = inp.yaml /\ ron = inp.ron
    /\ results = [e \in EntryPoints |-> None]
    /\ dto = AnimationDto(ModeDto_default, None, << >>)
    /\ converted = None

Returned(e, result) ==
    /\ results' = [results EXCEPT ![e] = Some(result)]
    /\ UNCHANGED <<dto, converted, yaml, ron>>

CallFromYamlStr ==
    /\ yaml.valid_utf8
    /\ Returned("from_yaml_str", from_yaml_str(Text(yaml)))

CallFromYamlBytes == Returned("from_yaml_bytes", from_yaml_bytes(yaml))

CallFromRonStr ==
    /\ ron.valid_utf8
    /\ Returned("from_ron_str", from_ron_str(Text(ron)))

CallFromRonBytes == Returned("from_ron_bytes", from_ron_bytes(ron))

Next ==
    \/ CallFromYamlStr
    \/ CallFromYamlBytes
    \/ CallFromRonStr
    \/ CallFromRonBytes

Spec == Init /\ [][Next]_vars

----------------------------------------------------------------------------
(* SpecCanon: try_from applied to an AnimationDto *)

InitCanon ==
    /\ dto \in AnimationDtos
    /\ converted = None
    /\ yaml = Bytes("yaml", TRUE, "ok", EmptyTree)
    /\ ron = Bytes("ron", TRUE, "ok", EmptyTree)
    /\ results = [e \in EntryPoints |-> None]

Convert ==
    /\ converted' = Some(try_from(dto))
    /\ UNCHANGED <<dto, yaml, ron, results>>

NextCanon == Convert

SpecCanon == InitCanon /\ [][NextCanon]_vars

----------------------------------------------------------------------------
(* Properties of SpecCanon *)

\* Duration::as_millis
Millis(duration) == duration.secs * 1000 + duration.nanos \div 1000000

\* the duration the descriptor gives frame i: its own if present, otherwise
\* the shared one
Effective(i) ==
    IF dto.frames[i].duration # None
    THEN dto.frames[i].duration
    ELSE dto.frame_duration

Unusable(i) == Effective(i) = None \/ Effective(i)[1] = 0

\* C1: the conversion fails, with ZeroDuration, exactly when the effective
\* duration of some frame is absent or 0, and then returns no animation, not
\* even the frames before the offending one; every frame of a returned
\* animation has a duration above 0; an empty frame list converts.
C1_ZeroDurationIff ==
    converted # None =>
        LET r == converted[1]
            bad == \E i \in 1..Len(dto.frames) : Unusable(i)
        IN  /\ r.ok <=> ~bad
            /\ ~r.ok => r.error = ZeroDuration /\ DOMAIN r = {"ok", "error"}
            /\ r.ok => \A i \in 1..Len(r.value.frames) :
                            /\ r.value.frames[i].duration.secs >= 0
                            /\ r.value.frames[i].duration.nanos >= 0
                            /\ Millis(r.value.frames[i].duration) > 0
            /\ dto.frames = << >> => r.ok

\* a valid frame followed by one without any duration: no partial animation
C1_Witness ==
    /\ converted # None
    /\ ~converted[1].ok
    /\ Len(dto.frames) = 2
    /\ ~Unusable(1)
    /\ Unusable(2)
    /\ dto.frames[2].duration = None

\* C2: when every frame resolves a positive duration the conversion succeeds
\* and returns one frame per entry, in the order of the entries, each with
\* its entry's index and effective duration in milliseconds.
C2_FramesInOrder ==
    (converted # None /\ \A i \in 1..Len(dto.frames) : ~Unusable(i)) =>
        LET r == converted[1]
        IN  /\ r.ok
            /\ Len(r.value.frames) = Len(dto.frames)
            /\ \A i \in 1..Len(dto.frames) :
                    /\ r.value.frames[i].index = dto.frames[i].index
                    /\ Millis(r.value.frames[i].duration) = Effective(i)[1]
                    /\ r.value.frames[i].duration.nanos < 1000000000
                    /\ r.value.frames[i].duration.nanos % 1000000 = 0

\* two frames of different indices and durations, one of them over a second
C2_Witness ==
    /\ converted # None
    /\ converted[1].ok
    /\ Len(converted[1].value.frames) = 2
    /\ converted[1].value.frames[1].index # converted[1].value.frames[2].index
    /\ converted[1].value.frames[1].duration.secs >= 1
    /\ converted[1].value.frames[2].duration.secs = 0

\* C4: the returned mode depends on the descriptor's mode alone: Repeat
\* gives RepeatFrom(0), RepeatFrom(k) gives RepeatFrom(k) for every k, also
\* one at or beyond the number of frames, Once gives Once, PingPong gives
\* PingPong; and whether the conversion succeeds does not depend on the mode.
C4_ModeNormalized ==
    converted # None =>
        LET r == converted[1]
        IN  /\ r.ok =>
                /\ dto.mode.tag = "Repeat" => r.value.mode = [tag |-> "RepeatFrom", n |-> 0]
                /\ dto.mode.tag = "RepeatFrom" =>
                        r.value.mode = [tag |-> "RepeatFrom", n |-> dto.mode.n]
                /\ dto.mode.tag = "Once" => r.value.mode = [tag |-> "Once", n |-> 0]
                /\ dto.mode.tag = "PingPong" => r.value.mode = [tag |-> "PingPong", n |-> 0]
            /\ r.ok <=> \A i \in 1..Len(dto.frames) : ~Unusable(i)
            /\ \A m \in ModeDtos : try_from([dto EXCEPT !.mode = m]).ok = r.ok

\* RepeatFrom(k) with k beyond the last frame is returned as it is
C4_Witness ==
    /\ converted # None
    /\ converted[1].ok
    /\ dto.mode.tag = "RepeatFrom"
    /\ dto.frames # << >>
    /\ dto.mode.n > Len(dto.frames)
    /\ converted[1].value.mode.n = dto.mode.n

\* C10: a frame whose own duration is present and 0 makes the conversion fail
\* with ZeroDuration whatever the shared duration is; the shared duration is
\* used only for the frames that have no duration of their own.
C10_ExplicitZeroNotReplaced ==
    converted # None =>
        LET r == converted[1]
        IN  /\ (\E i \in 1..Len(dto.frames) : dto.frames[i].duration = Some(0)) =>
                    ~r.ok /\ r.error = ZeroDuration
            /\ r.ok => \A i \in 1..Len(dto.frames) :
                    dto.frames[i].duration # None =>
                        Millis(r.value.frames[i].duration) = dto.frames[i].duration[1]

\* an explicit 0 beside a valid frame, under a positive shared duration
C10_Witness ==
    /\ converted # None
    /\ ~converted[1].ok
    /\ dto.frame_duration # None
    /\ dto.frame_duration[1] > 0
    /\ Len(dto.frames) = 2
    /\ dto.frames[1].duration = None
    /\ dto.frames[2].duration = Some(0)

----------------------------------------------------------------------------
(* Properties of Spec.  The authored descriptor is yaml.tree; ron.tree     *)
(* holds the same mode and entries.                                        *)

Called(e) == results[e] # None
Result(e) == results[e][1]
BytesOf(e) == IF e \in {"from_yaml_str", "from_yaml_bytes"} THEN yaml ELSE ron
MillisOf(frames) == [i \in 1..Len(frames) |-> Millis(frames[i].duration)]
IndexOf(frames) == [i \in 1..Len(frames) |-> frames[i].index]

\* what the document asks of the decoder
EntryDecodes(entry) ==
    \/ entry.t = "int" /\ entry.index <= UsizeMax
    \/ entry.t = "map" /\ entry.index <= UsizeMax /\ entry.extra = {}
ModeDecodes(mode) ==
    \/ mode.t = "absent"
    \/ mode.t = "unit" /\ mode.name \in {"Repeat", "Once", "PingPong"}
    \/ mode.t = "newtype" /\ mode.name = "RepeatFrom" /\ mode.n <= UsizeMax
WellFormed(bytes) ==
    /\ bytes.valid_utf8
    /\ bytes.syntax = "ok"
    /\ ModeDecodes(bytes.tree.mode)
    /\ \A i \in 1..Len(bytes.tree.frames) : EntryDecodes(bytes.tree.frames[i])

\* the duration written for an entry or for the document, if any
Written(tok) == IF tok.t \in {"int", "some"} THEN Some(tok.v) ELSE None
WrittenEffective(tree, i) ==
    IF Written(tree.frames[i].duration) # None
    THEN Written(tree.frames[i].duration)
    ELSE Written(tree.frame_duration)
ZeroOrMissing(tree) ==
    \E i \in 1..Len(tree.frames) :
        WrittenEffective(tree, i) = None \/ WrittenEffective(tree, i)[1] = 0

ShortHand100 ==
    Tree(ModeAbsent, Tok("int", 100), <<IntEntry(0), IntEntry(1), IntEntry(2)>>)
Override200 ==
    Tree(ModeAbsent, Tok("int", 100),
         <<MapEntry(0, Absent, {}), MapEntry(1, Absent, {}),
           MapEntry(2, Tok("int", 200), {})>>)

\* C3: under a positive shared frame_duration d, an entry written as a bare
\* index and a record entry without a duration both give a frame of duration
\* d, and a record entry with its own positive duration e gives e; frames
\* [0,1,2] under frame_duration 100 give [100,100,100], and frames
\* [{index:0},{index:1},{index:2,duration:200}] give [100,100,200].
C3_SharedAndOwnDurations ==
    \A e \in EntryPoints : Called(e) =>
        LET r == Result(e)
            t == yaml.tree
            d == t.frame_duration
        IN  /\ (d.t = "int" /\ d.v > 0 /\ WellFormed(BytesOf(e))
                    /\ ~ZeroOrMissing(t)) => r.ok
            /\ (d.t = "int" /\ d.v > 0 /\ r.ok) =>
                /\ Len(r.value.frames) = Len(t.frames)
                /\ \A i \in 1..Len(t.frames) :
                    LET own == t.frames[i].duration
                        ms == Millis(r.value.frames[i].duration)
                    IN  /\ t.frames[i].t = "int" => ms = d.v
                        /\ (t.frames[i].t = "map" /\ own.t \in {"absent", "null"})
                                => ms = d.v
                        /\ (t.frames[i].t = "map" /\ own.t = "int" /\ own.v > 0)
                                => ms = own.v
            /\ t = ShortHand100 =>
                /\ r.ok
                /\ MillisOf(r.value.frames) = <<100, 100, 100>>
                /\ IndexOf(r.value.frames) = <<0, 1, 2>>
            /\ t = Override200 =>
                /\ r.ok
                /\ MillisOf(r.value.frames) = <<100, 100, 200>>
                /\ IndexOf(r.value.frames) = <<0, 1, 2>>

\* the override document, parsed from YAML and from RON
C3_Witness ==
    /\ yaml.tree = Override200
    /\ Called("from_yaml_str")
    /\ Called("from_ron_bytes")
    /\ Result("from_yaml_str").ok
    /\ Result("from_ron_bytes").ok

DecodingKinds ==
    {"syntax", "invalid_value", "invalid_type", "unknown_field", "unknown_variant"}

ParseError(e) == Result(e).error.AnimationParseError

\* C5: a record entry holding a key other than index and duration makes the
\* whole parse fail with a decoding error, also when its index and duration
\* are valid: the key is not ignored and no animation is returned.
C5_UnknownKeyRejected ==
    \A e \in EntryPoints : Called(e) =>
        LET t == BytesOf(e).tree
        IN  /\ (\E i \in 1..Len(t.frames) :
                    t.frames[i].t = "map" /\ t.frames[i].extra # {}) =>
                /\ ~Result(e).ok
                /\ DOMAIN Result(e) = {"ok", "error"}
                /\ ParseError(e).kind \in DecodingKinds
            /\ (/\ t.frames # << >>
                /\ t.frames[1].t = "map"
                /\ t.frames[1].extra # {}
                /\ ModeDecodes(t.mode)) =>
                /\ ~Result(e).ok
                /\ ParseError(e).kind = "unknown_field"
                /\ ParseError(e).text \in t.frames[1].extra

\* {index: 0, duration: DurStep, weight: ..} alone, index and duration valid
C5_Witness ==
    /\ yaml.tree.frames = <<MapEntry(0, Tok("int", DurStep), {"weight"})>>
    /\ Called("from_yaml_bytes")
    /\ Called("from_ron_bytes")
    /\ ~Result("from_yaml_bytes").ok
    /\ ParseError("from_ron_bytes").kind = "unknown_field"

\* C6: a bare index that fits usize decodes to a frame of that index without
\* a duration of its own; one that does not fit is a decoding failure that
\* carries the literal and the expectation "either a frame index, or a
\* frame-index with a duration".
C6_BareIndexDecoding ==
    \A e \in EntryPoints : Called(e) =>
        LET t == BytesOf(e).tree
            r == Result(e)
        IN  /\ r.ok => \A i \in 1..Len(t.frames) :
                    t.frames[i].t = "int" =>
                        /\ t.frames[i].index <= UsizeMax
                        /\ r.value.frames[i].index = t.frames[i].index
                        /\ Written(t.frame_duration) # None
                        /\ Millis(r.value.frames[i].duration)
                                = Written(t.frame_duration)[1]
            /\ (/\ t.frames # << >>
                /\ t.frames[1].t = "int"
                /\ t.frames[1].index > UsizeMax
                /\ ModeDecodes(t.mode)) =>
                /\ ~r.ok
                /\ ParseError(e).kind = "invalid_value"
                /\ ParseError(e).unexpected = t.frames[1].index
                /\ ParseError(e).text
                        = "either a frame index, or a frame-index with a duration"

\* C7: the YAML entry points on the YAML document and the RON entry points
\* on the RON document of the same descriptor return the same animation, or
\* both fail; the RON durations may be written bare or wrapped in Some.
C7_CrossNotation ==
    \A y \in {"from_yaml_str", "from_yaml_bytes"} :
        \A x \in {"from_ron_str", "from_ron_bytes"} :
            (Called(y) /\ Called(x)) =>
                /\ Result(y).ok = Result(x).ok
                /\ Result(y).ok => Result(y).value = Result(x).value

\* a RON document with a bare duration, parsed to the YAML document's frames
C7_Witness ==
    /\ Called("from_yaml_bytes")
    /\ Called("from_ron_bytes")
    /\ Result("from_yaml_bytes").ok
    /\ Result("from_ron_bytes").ok
    /\ Len(ron.tree.frames) = 2
    /\ ron.tree.frames[1].duration.t = "int"
    /\ ron.tree.frame_duration.t = "int"
    /\ Result("from_ron_bytes").value.frames # << >>

SameResult(a, b) ==
    /\ a.ok = b.ok
    /\ a.ok => a.value = b.value
    /\ ~a.ok => a.error = b.error

\* C8: for each notation the entry point taking a string and the one taking
\* the bytes of that string return the same result.
C8_TextBytes ==
    /\ (Called("from_yaml_str") /\ Called("from_yaml_bytes")) =>
            SameResult(Result("from_yaml_str"), Result("from_yaml_bytes"))
    /\ (Called("from_ron_str") /\ Called("from_ron_bytes")) =>
            SameResult(Result("from_ron_str"), Result("from_ron_bytes"))

\* both pairs called on a document that parses
C8_Witness ==
    /\ \A e \in EntryPoints : Called(e) /\ Result(e).ok
    /\ Result("from_ron_str").value.frames # << >>

IsValidation(err) ==
    err.kind = "custom" /\ err.text = "invalid duration, must be > 0"

====
